---- MODULE Spec2Model ----
(***************************************************************************)
(* Model of the code-health-optimizer: the dead-code reachability engine   *)
(* (analyzers/deadCodeAnalyzer.ts), the health metrics (utils/metrics.ts), *)
(* the dependency scan (analyzers/dependencyAnalyzer.ts), and the          *)
(* orchestrator (src/index.ts) that runs the analyzers, scores the         *)
(* findings and has GitLab issues created (integrations/gitlab.ts).        *)
(*                                                                         *)
(* A parsed source file is an arena of syntax nodes in document order,     *)
(* each with the index of its parent (0 is the SourceFile node).  Strings  *)
(* the code inspects character by character (file names, finding types,    *)
(* file contents, import paths) are sequences of one-character strings; a  *)
(* symbol is the chain of its parents' names plus its own name, and its    *)
(* qualified name is the chain with the name appended.  Scores are exact   *)
(* rationals held as integers in hundredths of a point.                    *)
(***************************************************************************)
EXTENDS Integers, Sequences, FiniteSets, TLC

VARIABLES
    legacyAst,   \* the installed TypeScript keeps decorators in node.decorators (before 4.8)
    tree,        \* the files on disk under repoPath: a set of Catalogue indices
    edits,       \* how many times the file set was changed
    callGraph,   \* per analyzer instance: callee name -> set of caller names
    program,     \* per analyzer instance: the source files of this.program
    runs,        \* how many analyze() calls have finished
    lastRun,     \* per analyzer instance: the file set and the findings of its latest analyze()
    optKey,      \* orchestrator option anthropicKey is set
    optToken,    \* orchestrator option gitlabToken is set
    optProject,  \* orchestrator option gitlabProjectId is set
    orchPc,      \* where CodeHealthOptimizer.analyze() stands
    task,        \* the three analyzer promises: state and value
    allState,    \* the Promise.all over the three
    orchFindings, \* the findings list of the analyze() under way
    toCreate,    \* createHealthIssues: the severity groups still to create an issue for
    issues,      \* the issues created in the GitLab project
    result,      \* what CodeHealthOptimizer.analyze() returned
    mFindings,   \* the findings list handed to HealthMetrics
    mScore,      \* what calculateHealthScore did with it
    packageJson, \* the package.json under repoPath
    sources,     \* the source files the dependency scan reads: a set of SourceCatalogue indices
    writes,      \* how many times the repository was written before the scan
    npmOut       \* what analyzeNpm() did

vars == <<legacyAst, tree, edits, callGraph, program, runs, lastRun, optKey, optToken, optProject,
          orchPc, task, allState, orchFindings, toCreate, issues, result,
          mFindings, mScore, packageJson, sources, writes, npmOut>>

deadVars == <<legacyAst, tree, edits, callGraph, program, runs, lastRun>>
orchVars == <<optKey, optToken, optProject, orchPc, task, allState, orchFindings, toCreate,
              issues, result>>
metricVars == <<mFindings, mScore>>
npmVars == <<packageJson, sources, writes, npmOut>>

-----------------------------------------------------------------------------
(* Bounds *)

MaxFiles == 2
MaxEdits == 1
MaxRuns == 3
MaxFindings == 3
MaxSources == 2
MaxWrites == 3

Instances == {"A", "B"}

-----------------------------------------------------------------------------
(* Syntax nodes *)

NoName == "<none>"

\* A symbol of the type checker: the chain of its parents' names and its own name.
Sym(chain, name) == [chain |-> chain, name |-> name]
NoSymbol == Sym(<<>>, "<undefined>")

\* The value of node.decorators: the property may be missing, or hold an array.
NoField == [present |-> FALSE, isArray |-> FALSE, items |-> <<>>]
DecoratorArray(items) == [present |-> TRUE, isArray |-> TRUE, items |-> items]

FunctionDecl(parent, name, symbol, modifiers, line0, endLine0) ==
    [kind |-> "FunctionDeclaration", parent |-> parent, name |-> name,
     symbol |-> symbol, modifiers |-> modifiers, decorators |-> NoField, annotations |-> <<>>,
     line0 |-> line0, endLine0 |-> endLine0, callee |-> NoSymbol]

MethodDecl(parent, name, symbol, annotations, line0, endLine0) ==
    [kind |-> "MethodDeclaration", parent |-> parent, name |-> name,
     symbol |-> symbol, modifiers |-> {}, decorators |-> NoField, annotations |-> annotations,
     line0 |-> line0, endLine0 |-> endLine0, callee |-> NoSymbol]

ClassDecl(parent, name, modifiers, line0, endLine0) ==
    [kind |-> "ClassDeclaration", parent |-> parent, name |-> name,
     symbol |-> NoSymbol, modifiers |-> modifiers, decorators |-> NoField, annotations |-> <<>>,
     line0 |-> line0, endLine0 |-> endLine0, callee |-> NoSymbol]

ArrowFn(parent, line0, endLine0) ==
    [kind |-> "ArrowFunction", parent |-> parent, name |-> NoName,
     symbol |-> NoSymbol, modifiers |-> {}, decorators |-> NoField, annotations |-> <<>>,
     line0 |-> line0, endLine0 |-> endLine0, callee |-> NoSymbol]

CallExpr(parent, callee, line0) ==
    [kind |-> "CallExpression", parent |-> parent, name |-> NoName,
     symbol |-> NoSymbol, modifiers |-> {}, decorators |-> NoField, annotations |-> <<>>,
     line0 |-> line0, endLine0 |-> line0, callee |-> callee]

-----------------------------------------------------------------------------
(* The repository under analysis *)

repoPath == <<"/", "r">>

\* /l/lib.d.ts: declare function parseInt(s: string): number;
LibFile ==
    [fileName |-> <<"/", "l", "/", "l", "i", "b", ".", "d", ".", "t", "s">>,
     isDeclarationFile |-> TRUE,
     nodes |-> << FunctionDecl(0, "parseInt", Sym(<<>>, "parseInt"), {"DeclareKeyword"}, 0, 0) >>]

\* /r/latest.ts:   function used() {}
\*                 function dead() {
\*                   parseInt("1");
\*                 }
FileLatest ==
    [fileName |-> <<"/", "r", "/", "l", "a", "t", "e", "s", "t", ".", "t", "s">>,
     isDeclarationFile |-> FALSE,
     nodes |-> << FunctionDecl(0, "used", Sym(<<>>, "used"), {}, 0, 0),
                  FunctionDecl(0, "dead", Sym(<<>>, "dead"), {}, 1, 3),
                  CallExpr(2, Sym(<<>>, "parseInt"), 2) >>]

\* /r/b.ts:        function caller() {
\*                   used();
\*                   used();
\*                   parseInt("2");
\*                 }
FileB ==
    [fileName |-> <<"/", "r", "/", "b", ".", "t", "s">>,
     isDeclarationFile |-> FALSE,
     nodes |-> << FunctionDecl(0, "caller", Sym(<<>>, "caller"), {}, 0, 4),
                  CallExpr(1, Sym(<<>>, "used"), 1),
                  CallExpr(1, Sym(<<>>, "used"), 2),
                  CallExpr(1, Sym(<<>>, "parseInt"), 3) >>]

\* /r/c.ts:        used();
FileC ==
    [fileName |-> <<"/", "r", "/", "c", ".", "t", "s">>,
     isDeclarationFile |-> FALSE,
     nodes |-> << CallExpr(0, Sym(<<>>, "used"), 0) >>]

\* /r/m.ts:        export function main() { helper(); }
\*                 function helper() {}
\*                 function rec() { rec(); }
\*                 export default function () {
\*                   function inner() {}
\*                 }
FileM ==
    [fileName |-> <<"/", "r", "/", "m", ".", "t", "s">>,
     isDeclarationFile |-> FALSE,
     nodes |-> << FunctionDecl(0, "main", Sym(<<"\"/r/m\"">>, "main"), {"ExportKeyword"}, 0, 0),
                  CallExpr(1, Sym(<<>>, "helper"), 0),
                  FunctionDecl(0, "helper", Sym(<<>>, "helper"), {}, 1, 1),
                  FunctionDecl(0, "rec", Sym(<<>>, "rec"), {}, 2, 2),
                  CallExpr(4, Sym(<<>>, "rec"), 2),
                  FunctionDecl(0, NoName, NoSymbol, {"ExportKeyword", "DefaultKeyword"}, 3, 5),
                  FunctionDecl(6, "inner", Sym(<<>>, "inner"), {}, 4, 4) >>]

\* /r/svc.ts:      export class Svc {
\*                   run() {}
\*                   @Route() handle() {}
\*                   tick() {
\*                     [1].forEach(() => { this.log(); });
\*                   }
\*                   log() {}
\*                 }
FileSvc ==
    [fileName |-> <<"/", "r", "/", "s", "v", "c", ".", "t", "s">>,
     isDeclarationFile |-> FALSE,
     nodes |-> << ClassDecl(0, "Svc", {"ExportKeyword"}, 0, 7),
                  MethodDecl(1, "run", Sym(<<"\"/r/svc\"", "Svc">>, "run"), <<>>, 1, 1),
                  MethodDecl(1, "handle", Sym(<<"\"/r/svc\"", "Svc">>, "handle"), <<"Route">>, 2, 2),
                  MethodDecl(1, "tick", Sym(<<"\"/r/svc\"", "Svc">>, "tick"), <<>>, 3, 5),
                  CallExpr(4, Sym(<<"Array">>, "forEach"), 4),
                  ArrowFn(5, 4, 4),
                  CallExpr(6, Sym(<<"\"/r/svc\"", "Svc">>, "log"), 4),
                  MethodDecl(1, "log", Sym(<<"\"/r/svc\"", "Svc">>, "log"), <<>>, 6, 6) >>]

\* /r/u.test.ts:   function fixtureOnly() {}
FileTest ==
    [fileName |-> <<"/", "r", "/", "u", ".", "t", "e", "s", "t", ".", "t", "s">>,
     isDeclarationFile |-> FALSE,
     nodes |-> << FunctionDecl(0, "fixtureOnly", Sym(<<>>, "fixtureOnly"), {}, 0, 0) >>]

\* /r/h.spec.ts:   function specHelper() {}
FileSpec ==
    [fileName |-> <<"/", "r", "/", "h", ".", "s", "p", "e", "c", ".", "t", "s">>,
     isDeclarationFile |-> FALSE,
     nodes |-> << FunctionDecl(0, "specHelper", Sym(<<>>, "specHelper"), {}, 0, 0) >>]

Catalogue == <<FileLatest, FileB, FileC, FileM, FileSvc, FileTest, FileSpec>>

Trees == {t \in SUBSET (1..Len(Catalogue)) : Cardinality(t) <= MaxFiles}

-----------------------------------------------------------------------------
(* File discovery and program construction *)

\* The indices of t in ascending order: the order glob lists the files in.
Ordered(t) == SelectSeq([i \in 1..Len(Catalogue) |-> i], LAMBDA i : i \in t)

\* findFiles(repoPath, patterns): the absolute names of the files on disk.
findFiles(t) ==
    LET order == Ordered(t)
    IN  [k \in 1..Len(order) |-> Catalogue[order[k]].fileName]

\* The parser's node for a declaration written with the decorators nd.annotations:
\* TypeScript before 4.8 stores them in node.decorators, later versions store them
\* among node.modifiers and leave no decorators array on the node.
ParseNode(nd) ==
    IF Len(nd.annotations) = 0 THEN nd
    ELSE IF legacyAst
         THEN [nd EXCEPT !.decorators = DecoratorArray(nd.annotations)]
         ELSE [nd EXCEPT !.modifiers = @ \cup {"Decorator"}]

ParseFile(file) == [file EXCEPT !.nodes = [n \in 1..Len(file.nodes) |-> ParseNode(file.nodes[n])]]

\* ts.createProgram(files, ...).getSourceFiles(): the default library, then the roots.
getSourceFiles(t) ==
    LET order == Ordered(t)
    IN  <<LibFile>> \o [k \in 1..Len(order) |-> ParseFile(Catalogue[order[k]])]

IsDeclNode(nd) == nd.kind \in {"FunctionDeclaration", "MethodDeclaration"}

\* checker.getSymbolAtLocation(callee): the symbol the callee expression names, when
\* a declaration of the program declares it; undefined otherwise.
ResolveCallee(files, callee) ==
    IF \E f \in 1..Len(files) : \E n \in 1..Len(files[f].nodes) :
           /\ IsDeclNode(files[f].nodes[n])
           /\ files[f].nodes[n].symbol = callee
           /\ callee # NoSymbol
    THEN callee
    ELSE NoSymbol

\* checker.getSymbolAtLocation(node.name) of a declaration; no name, no symbol.
DeclSymbol(nd) == IF nd.name # NoName THEN nd.symbol ELSE NoSymbol

\* checker.getFullyQualifiedName(symbol): the parents' names, then the symbol's own.
getFullSymbolName(symbol) == symbol.chain \o <<symbol.name>>

-----------------------------------------------------------------------------
(* String helpers of the classifier *)

\* String.prototype.includes
Includes(hay, needle) ==
    \E k \in 1..(Len(hay) - Len(needle) + 1) :
        SubSeq(hay, k, k + Len(needle) - 1) = needle

\* path.relative(from, to) for a file `to` below the directory `from`
PathRelative(from, to) ==
    IF Len(to) > Len(from) + 1 /\ SubSeq(to, 1, Len(from) + 1) = from \o <<"/">>
    THEN SubSeq(to, Len(from) + 2, Len(to))
    ELSE <<".", ".">> \o to

TestMarker == <<".", "t", "e", "s", "t", ".">>
SpecMarker == <<".", "s", "p", "e", "c", ".">>

isTestFileOnlyTest(fileName) == Includes(fileName, TestMarker)

isTestFile(fileName) == Includes(fileName, TestMarker) \/ Includes(fileName, SpecMarker)

isExportedNever(nd) == FALSE

isExported(nd) == \E m \in nd.modifiers : m = "ExportKeyword"

hasDecorators(nd) ==
    /\ nd.decorators.present
    /\ nd.decorators.isArray
    /\ Len(nd.decorators.items) > 0

-----------------------------------------------------------------------------
(* The call graph *)

EmptyGraph == [k \in {} |-> {}]

\* callGraph.get(name): the caller set, here {} for a missing key together with Has
Has(g, name) == name \in DOMAIN g
Get(g, name) == IF Has(g, name) THEN g[name] ELSE {}

\* An insertion that would store the caller in place of the callee's set
AddEdgeOverwriting(g, calleeName, callerName) ==
    LET g1 == IF ~Has(g, calleeName) THEN g @@ (calleeName :> {}) ELSE g
    IN  [g1 EXCEPT ![calleeName] = {callerName}]

AddEdge(g, calleeName, callerName) ==
    LET g1 == IF ~Has(g, calleeName) THEN g @@ (calleeName :> {}) ELSE g
    IN  [g1 EXCEPT ![calleeName] = @ \cup {callerName}]

RECURSIVE getContainingFunction(_, _)
getContainingFunction(nodes, current) ==
    IF current = 0
    THEN NoSymbol
    ELSE IF IsDeclNode(nodes[current]) /\ nodes[current].name # NoName
         THEN nodes[current].symbol
         ELSE getContainingFunction(nodes, nodes[current].parent)

\* The body of buildCallGraph's visit for one node (its children follow in the arena).
VisitCall(g, files, nodes, n) ==
    IF nodes[n].kind = "CallExpression"
    THEN LET calleeSymbol == ResolveCallee(files, nodes[n].callee)
             callerSymbol == getContainingFunction(nodes, n)
         IN  IF callerSymbol # NoSymbol /\ calleeSymbol # NoSymbol
             THEN AddEdge(g, getFullSymbolName(calleeSymbol), getFullSymbolName(callerSymbol))
             ELSE g
    ELSE g

RECURSIVE VisitCallsFrom(_, _, _, _)
VisitCallsFrom(g, files, nodes, n) ==
    IF n > Len(nodes) THEN g
    ELSE VisitCallsFrom(VisitCall(g, files, nodes, n), files, nodes, n + 1)

RECURSIVE BuildFrom(_, _, _)
BuildFrom(g, files, f) ==
    IF f > Len(files) THEN g
    ELSE IF files[f].isDeclarationFile
         THEN BuildFrom(g, files, f + 1)
         ELSE BuildFrom(VisitCallsFrom(g, files, files[f].nodes, 1), files, f + 1)

\* buildCallGraph(): adds the edges of every source file to this.callGraph
buildCallGraph(g, files) == BuildFrom(g, files, 1)

-----------------------------------------------------------------------------
(* Classification *)

ConfidenceTenths == 9

Finding(file, nd) ==
    [filePath |-> PathRelative(repoPath, file.fileName),
     functionName |-> IF nd.name # NoName THEN nd.name ELSE "anonymous",
     lineStart |-> nd.line0 + 1,
     lineEnd |-> nd.endLine0 + 1,
     confidence |-> ConfidenceTenths,
     reason |-> "Function has no internal references and is not exported"]

\* visit(node) returns before forEachChild when a declaration has no symbol, so the
\* nodes below such a declaration are never visited by the classifier.
RECURSIVE Reached(_, _)
Reached(nodes, n) ==
    LET p == nodes[n].parent
    IN  IF p = 0 THEN TRUE
        ELSE IF IsDeclNode(nodes[p]) /\ DeclSymbol(nodes[p]) = NoSymbol
             THEN FALSE
             ELSE Reached(nodes, p)

\* A classifier that would not count a declaration's calls of itself
FlaggedUnlessCalledByOthers(g, file, n) ==
    LET nd == file.nodes[n]
    IN  /\ IsDeclNode(nd)
        /\ Reached(file.nodes, n)
        /\ DeclSymbol(nd) # NoSymbol
        /\ Get(g, getFullSymbolName(DeclSymbol(nd))) \ {getFullSymbolName(DeclSymbol(nd))} = {}
        /\ ~isExported(nd)
        /\ ~isTestFile(file.fileName)
        /\ ~hasDecorators(nd)

\* Whether the classifier's visit pushes a finding for node n of the file.
Flagged(g, file, n) ==
    LET nd == file.nodes[n]
    IN  /\ IsDeclNode(nd)
        /\ Reached(file.nodes, n)
        /\ DeclSymbol(nd) # NoSymbol
        /\ Get(g, getFullSymbolName(DeclSymbol(nd))) = {}
        /\ ~isExported(nd)
        /\ ~isTestFile(file.fileName)
        /\ ~hasDecorators(nd)

RECURSIVE ClassifyNodesFrom(_, _, _, _)
ClassifyNodesFrom(found, g, file, n) ==
    IF n > Len(file.nodes) THEN found
    ELSE ClassifyNodesFrom(
             IF Flagged(g, file, n) THEN Append(found, Finding(file, file.nodes[n])) ELSE found,
             g, file, n + 1)

\* A classifier that would read each file off the edges collected up to that file
RECURSIVE ClassifyAsVisited(_, _, _, _)
ClassifyAsVisited(found, g, files, f) ==
    IF f > Len(files) THEN found
    ELSE IF files[f].isDeclarationFile
         THEN ClassifyAsVisited(found, g, files, f + 1)
         ELSE ClassifyAsVisited(
                  ClassifyNodesFrom(found, BuildFrom(EmptyGraph, SubSeq(files, 1, f), 1),
                                    files[f], 1),
                  g, files, f + 1)

RECURSIVE ClassifyFrom(_, _, _, _)
ClassifyFrom(found, g, files, f) ==
    IF f > Len(files) THEN found
    ELSE IF files[f].isDeclarationFile
         THEN ClassifyFrom(found, g, files, f + 1)
         ELSE ClassifyFrom(ClassifyNodesFrom(found, g, files[f], 1), g, files, f + 1)

\* Step 2 of analyze(): the findings for the program, read off the graph g
classify(g, files) == ClassifyFrom(<<>>, g, files, 1)

\* What analyze() returns for an instance whose graph is g, over file set t
FindingsOf(g, t) ==
    IF Len(findFiles(t)) = 0 THEN <<>>
    ELSE LET files == getSourceFiles(t)
         IN  classify(buildCallGraph(g, files), files)

-----------------------------------------------------------------------------
(* The analyzer instances and the file set *)

NoProgram == <<>>

InitDead ==
    /\ legacyAst \in BOOLEAN
    /\ tree \in Trees
    /\ edits = 0
    /\ callGraph = [i \in Instances |-> EmptyGraph]
    /\ program = [i \in Instances |-> NoProgram]
    /\ runs = 0
    /\ lastRun = [i \in Instances |-> [ran |-> FALSE, files |-> {}, findings |-> <<>>]]

\* An analyze() that would go on to build the program when no file was found
AnalyzeWithoutEarlyReturn(i) ==
    /\ runs < MaxRuns
    /\ LET files == getSourceFiles(tree)
           graph == buildCallGraph(callGraph[i], files)
       IN  /\ callGraph' = [callGraph EXCEPT ![i] = graph]
           /\ program' = [program EXCEPT ![i] = files]
           /\ lastRun' = [lastRun EXCEPT ![i] =
                  [ran |-> TRUE, files |-> tree, findings |-> classify(graph, files)]]
    /\ runs' = runs + 1
    /\ UNCHANGED <<legacyAst, tree, edits>>

\* DeadCodeAnalyzer.analyze() on instance i
Analyze(i) ==
    /\ runs < MaxRuns
    /\ LET noFiles == Len(findFiles(tree)) = 0
           files == getSourceFiles(tree)
           graph == IF noFiles THEN callGraph[i] ELSE buildCallGraph(callGraph[i], files)
           found == IF noFiles THEN <<>> ELSE classify(graph, files)
       IN  /\ callGraph' = [callGraph EXCEPT ![i] = graph]
           /\ program' = [program EXCEPT ![i] = IF noFiles THEN @ ELSE files]
           /\ lastRun' = [lastRun EXCEPT ![i] =
                  [ran |-> TRUE, files |-> tree, findings |-> found]]
    /\ runs' = runs + 1
    /\ UNCHANGED <<legacyAst, tree, edits>>

\* A file is added to, or removed from, the tree between two runs.
ChangeFiles ==
    /\ edits < MaxEdits
    /\ \E x \in 1..Len(Catalogue) :
          /\ tree' = IF x \in tree THEN tree \ {x} ELSE tree \cup {x}
          /\ tree' \in Trees
    /\ edits' = edits + 1
    /\ UNCHANGED <<legacyAst, callGraph, program, runs, lastRun>>

-----------------------------------------------------------------------------
(* Health metrics: HealthMetrics (metrics.ts) *)

\* An optional property: undefined (with the value its reads fall back to in the
\* model's records), or a value
Absent(zero) == [present |-> FALSE, value |-> zero]
Present(v) == [present |-> TRUE, value |-> v]

\* A finding as HealthMetrics reads it: type, lineStart and lineEnd, each possibly
\* undefined.  A type is a sequence of one-character strings.
MetricFinding(type, lineStart, lineEnd) ==
    [type |-> type, lineStart |-> lineStart, lineEnd |-> lineEnd]

DeadCodeKey == <<"d", "e", "a", "d", "_", "c", "o", "d", "e">>
DuplicateKey == <<"d", "u", "p", "l", "i", "c", "a", "t", "e">>
DuplicatesKey == <<"d", "u", "p", "l", "i", "c", "a", "t", "e", "s">>
DependencyKey == <<"d", "e", "p", "e", "n", "d", "e", "n", "c", "y">>
DependenciesKey == <<"d", "e", "p", "e", "n", "d", "e", "n", "c", "i", "e", "s">>
ComplexityKey == <<"c", "o", "m", "p", "l", "e", "x", "i", "t", "y">>
UnknownKey == <<"u", "n", "k", "n", "o", "w", "n">>

\* The weights object, in tenths, in the order Object.entries lists it
weights ==
    << [key |-> DeadCodeKey, weight |-> 3],
       [key |-> DuplicateKey, weight |-> 4],
       [key |-> DuplicatesKey, weight |-> 4],
       [key |-> DependencyKey, weight |-> 2],
       [key |-> DependenciesKey, weight |-> 2],
       [key |-> ComplexityKey, weight |-> 1] >>

UpperCase == <<"A", "B", "C", "D", "E", "F", "G", "H", "I", "J", "K", "L", "M",
               "N", "O", "P", "Q", "R", "S", "T", "U", "V", "W", "X", "Y", "Z">>
LowerCase == <<"a", "b", "c", "d", "e", "f", "g", "h", "i", "j", "k", "l", "m",
               "n", "o", "p", "q", "r", "s", "t", "u", "v", "w", "x", "y", "z">>

\* String.prototype.toLowerCase
toLowerCase(s) ==
    [k \in 1..Len(s) |->
        IF \E j \in 1..Len(UpperCase) : UpperCase[j] = s[k]
        THEN LowerCase[CHOOSE j \in 1..Len(UpperCase) : UpperCase[j] = s[k]]
        ELSE s[k]]

WhiteSpace == {" ", "\t", "\n"}

\* s.replace(/\s+/g, '_'): every run of white space becomes one underscore
RECURSIVE ReplaceSpaceRuns(_, _)
ReplaceSpaceRuns(s, k) ==
    IF k > Len(s) THEN <<>>
    ELSE IF s[k] \in WhiteSpace
         THEN IF k > 1 /\ s[k - 1] \in WhiteSpace
              THEN ReplaceSpaceRuns(s, k + 1)
              ELSE <<"_">> \o ReplaceSpaceRuns(s, k + 1)
         ELSE <<s[k]>> \o ReplaceSpaceRuns(s, k + 1)

\* (f.type ?? fallback).toLowerCase().replace(/\s+/g, '_')
NormalizedType(f, fallback) ==
    ReplaceSpaceRuns(toLowerCase(IF f.type.present THEN f.type.value ELSE fallback), 1)

\* The property names every object literal inherits from Object.prototype that a
\* lower-cased string can equal; acc[name] is a truthy non-array for them.
ObjectPrototypeKeys ==
    { <<"c", "o", "n", "s", "t", "r", "u", "c", "t", "o", "r">>,
      <<"_", "_", "p", "r", "o", "t", "o", "_", "_">> }

\* The reduce that groups the findings by normalized type, from finding k on.
\* acc[type].push(f) throws a TypeError when acc[type] is an inherited property.
RECURSIVE GroupByType(_, _, _)
GroupByType(findings, k, acc) ==
    IF k > Len(findings) THEN [threw |-> FALSE, byType |-> acc]
    ELSE LET type == NormalizedType(findings[k], UnknownKey)
         IN  IF type \in DOMAIN acc
             THEN GroupByType(findings, k + 1, [acc EXCEPT ![type] = Append(@, findings[k])])
             ELSE IF type \in ObjectPrototypeKeys
                  THEN [threw |-> TRUE, byType |-> acc]
                  ELSE GroupByType(findings, k + 1, acc @@ (type :> <<findings[k]>>))

Max(a, b) == IF a >= b THEN a ELSE b
Min(a, b) == IF a <= b THEN a ELSE b

\* Scores are held in hundredths of a point: the dead-code penalty is lines / 100.
Hundredths == 100

\* Math.max(0, (f.lineEnd ?? 0) - (f.lineStart ?? 0)) || 1
DeadLines(f) ==
    LET span == Max(0, (IF f.lineEnd.present THEN f.lineEnd.value ELSE 0)
                       - (IF f.lineStart.present THEN f.lineStart.value ELSE 0))
    IN  IF span = 0 THEN 1 ELSE span

RECURSIVE SumDeadLines(_, _)
SumDeadLines(findings, k) ==
    IF k > Len(findings) THEN 0
    ELSE DeadLines(findings[k]) + SumDeadLines(findings, k + 1)

scoreDeadCode(findings) ==
    LET linesOfDeadCode == SumDeadLines(findings, 1)
        penalty == Min(linesOfDeadCode, 50 * Hundredths)
    IN  Max(100 * Hundredths - penalty, 0)

scoreDuplicates(findings) ==
    LET penalty == Min(Len(findings) * 5, 60)
    IN  Max(100 - penalty, 0) * Hundredths

scoreDependencies(findings) ==
    LET penalty == Min(Len(findings) * 3, 40)
    IN  Max(100 - penalty, 0) * Hundredths

scoreByType(type, findings) ==
    CASE type = DeadCodeKey -> scoreDeadCode(findings)
      [] type \in {DuplicateKey, DuplicatesKey} -> scoreDuplicates(findings)
      [] type \in {DependencyKey, DependenciesKey} -> scoreDependencies(findings)
      [] type = ComplexityKey -> 100 * Hundredths
      [] OTHER -> 100 * Hundredths

\* The loop over Object.entries(weights): the sum of score * weight (in hundredths
\* times tenths) and the sum of the weights (in tenths), from entry k on
RECURSIVE WeighFrom(_, _)
WeighFrom(byType, k) ==
    IF k > Len(weights) THEN [weightedScore |-> 0, totalWeight |-> 0]
    ELSE LET items == IF weights[k].key \in DOMAIN byType THEN byType[weights[k].key] ELSE <<>>
             score == scoreByType(weights[k].key, items)
             rest == WeighFrom(byType, k + 1)
         IN  [weightedScore |-> score * weights[k].weight + rest.weightedScore,
              totalWeight |-> weights[k].weight + rest.totalWeight]

\* Math.round(num / den) for den > 0: the nearest integer, halves upwards
Round(num, den) == (2 * num + den) \div (2 * den)

Returned(n) == [state |-> "returned", value |-> n]
Threw == [state |-> "threw", value |-> 0]
NotCalled == [state |-> "none", value |-> 0]

\* calculateHealthScore(findings): what the call returns, or that it threw
calculateHealthScore(findings) ==
    LET grouped == GroupByType(findings, 1, [k \in {} |-> <<>>])
    IN  IF grouped.threw THEN Threw
        ELSE LET sums == WeighFrom(grouped.byType, 1)
                 \* weightedScore / Math.max(totalWeight, 0.1), as num / den points
                 num == sums.weightedScore
                 den == Max(sums.totalWeight, 1) * Hundredths
                 clamped == Min(100 * den, Max(0, num))
             IN  Returned(Round(clamped, den))

\* savings[type] ?? 0 in quarters of an hour
SavingsOf(type) ==
    CASE type = DeadCodeKey -> 2
      [] type \in {DuplicateKey, DuplicatesKey} -> 8
      [] type \in {DependencyKey, DependenciesKey} -> 1
      [] OTHER -> 0

RECURSIVE SumSavings(_, _)
SumSavings(findings, k) ==
    IF k > Len(findings) THEN 0
    ELSE SavingsOf(NormalizedType(findings[k], <<>>)) + SumSavings(findings, k + 1)

\* estimateTimeSavings(findings) in quarters of an hour; an inherited property of
\* the savings object is not a number, and neither is the total then
estimateTimeSavings(findings) ==
    IF \E k \in 1..Len(findings) : NormalizedType(findings[k], <<>>) \in ObjectPrototypeKeys
    THEN [isNumber |-> FALSE, quarters |-> 0]
    ELSE [isNumber |-> TRUE, quarters |-> SumSavings(findings, 1)]

\* The findings the metrics are exercised on
DeadCodeLabel == <<"D", "e", "a", "d", " ", " ", "C", "o", "d", "e">>
ConstructorType == <<"c", "o", "n", "s", "t", "r", "u", "c", "t", "o", "r">>

MetricFindings ==
    { MetricFinding(Present(DeadCodeKey), Absent(0), Absent(0)),
      MetricFinding(Present(DeadCodeKey), Present(1), Present(3)),
      MetricFinding(Present(DeadCodeKey), Present(9), Present(2)),
      MetricFinding(Present(DeadCodeKey), Present(0), Present(6000)),
      MetricFinding(Present(DeadCodeLabel), Absent(0), Present(40)),
      MetricFinding(Present(DuplicateKey), Absent(0), Absent(0)),
      MetricFinding(Present(DependencyKey), Absent(0), Absent(0)),
      MetricFinding(Present(ComplexityKey), Absent(0), Absent(0)),
      MetricFinding(Present(ConstructorType), Absent(0), Absent(0)),
      MetricFinding(Absent(<<>>), Absent(0), Absent(0)) }

InitMetrics ==
    /\ mFindings = <<>>
    /\ mScore = NotCalled

\* A caller assembles the findings list
AddFinding ==
    /\ mScore.state = "none"
    /\ Len(mFindings) < MaxFindings
    /\ \E f \in MetricFindings : mFindings' = Append(mFindings, f)
    /\ UNCHANGED mScore

\* new HealthMetrics().calculateHealthScore(findings)
CalculateHealthScore ==
    /\ mScore.state = "none"
    /\ mScore' = calculateHealthScore(mFindings)
    /\ UNCHANGED mFindings

-----------------------------------------------------------------------------
(* Dependency analysis: DependencyAnalyzer (dependencyAnalyzer.ts) *)

\* Package names, as the sequences of characters package.json spells them with
PkgA == <<"a">>
PkgB == <<"b">>
PkgC == <<"c">>
PkgScoped == <<"@", "s", "/", "p">>
PkgUnused == <<"u">>
Packages == {PkgA, PkgB, PkgC, PkgScoped, PkgUnused}

\* The source files that can lie under repoPath: the text the analyzer reads, and
\* the packages the module imports or requires when it is loaded.
\* /r/use.ts:   import x from 'a'
SrcUse ==
    [fileName |-> <<"/", "r", "/", "u", "s", "e", ".", "t", "s">>,
     content |-> <<"i", "m", "p", "o", "r", "t", " ", "x", " ", "f", "r", "o", "m",
                   " ", "'", "a", "'">>,
     loads |-> {PkgA}]

\* /r/side.ts:   import 'b'
SrcSide ==
    [fileName |-> <<"/", "r", "/", "s", "i", "d", "e", ".", "t", "s">>,
     content |-> <<"i", "m", "p", "o", "r", "t", " ", "'", "b", "'">>,
     loads |-> {PkgB}]

\* /r/req.js:   require('@s/p/q')
SrcReq ==
    [fileName |-> <<"/", "r", "/", "r", "e", "q", ".", "j", "s">>,
     content |-> <<"r", "e", "q", "u", "i", "r", "e", "(", "'", "@", "s", "/", "p",
                   "/", "q", "'", ")">>,
     loads |-> {PkgScoped}]

\* /r/multi.ts:   import {\nx\n} from 'c'
SrcMulti ==
    [fileName |-> <<"/", "r", "/", "m", "u", "l", "t", "i", ".", "t", "s">>,
     content |-> <<"i", "m", "p", "o", "r", "t", " ", "{", "\n", "x", "\n", "}", " ",
                   "f", "r", "o", "m", " ", "'", "c", "'">>,
     loads |-> {PkgC}]

\* /r/sub.ts:   import y from "a/fp"
SrcSub ==
    [fileName |-> <<"/", "r", "/", "s", "u", "b", ".", "t", "s">>,
     content |-> <<"i", "m", "p", "o", "r", "t", " ", "y", " ", "f", "r", "o", "m",
                   " ", "\"", "a", "/", "f", "p", "\"">>,
     loads |-> {PkgA}]

\* /r/local.ts:   import z from './b'
SrcLocal ==
    [fileName |-> <<"/", "r", "/", "l", "o", "c", "a", "l", ".", "t", "s">>,
     content |-> <<"i", "m", "p", "o", "r", "t", " ", "z", " ", "f", "r", "o", "m",
                   " ", "'", ".", "/", "b", "'">>,
     loads |-> {}]

SourceCatalogue == <<SrcUse, SrcSide, SrcReq, SrcMulti, SrcSub, SrcLocal>>

SourceTrees == {t \in SUBSET (1..Len(SourceCatalogue)) : Cardinality(t) <= MaxSources}

\* A package.json: absent, not parseable, or an object whose dependencies and
\* devDependencies are absent or lists of name and version in the order written.
Dep(name, version) == [name |-> name, version |-> version]

NoPackageJson == [exists |-> FALSE, valid |-> FALSE, dependencies |-> Absent(<<>>),
                  devDependencies |-> Absent(<<>>)]
BrokenPackageJson == [exists |-> TRUE, valid |-> FALSE, dependencies |-> Absent(<<>>),
                      devDependencies |-> Absent(<<>>)]
PackageJson(dependencies, devDependencies) ==
    [exists |-> TRUE, valid |-> TRUE, dependencies |-> dependencies,
     devDependencies |-> devDependencies]

PackageJsons ==
    { NoPackageJson,
      BrokenPackageJson,
      PackageJson(Absent(<<>>), Absent(<<>>)),
      PackageJson(Present(<<Dep(PkgA, "1.0.0"), Dep(PkgUnused, "1.0.0")>>), Absent(<<>>)),
      PackageJson(Present(<<Dep(PkgB, "1.0.0")>>),
                  Present(<<Dep(PkgScoped, "2.0.0"), Dep(PkgUnused, "1.0.0")>>)),
      PackageJson(Present(<<Dep(PkgC, "1.0.0"), Dep(PkgA, "1.0.0")>>),
                  Present(<<Dep(PkgA, "3.0.0")>>)) }

\* { ...a, ...b }: a's keys in a's order with b's values where b has the key, then
\* b's other keys
NamesOf(entries) == {entries[k].name : k \in 1..Len(entries)}
VersionIn(entries, name) ==
    entries[CHOOSE k \in 1..Len(entries) :
                /\ entries[k].name = name
                /\ \A j \in (k + 1)..Len(entries) : entries[j].name # name].version
Spread(a, b) ==
    [k \in 1..Len(a) |->
        IF a[k].name \in NamesOf(b) THEN Dep(a[k].name, VersionIn(b, a[k].name)) ELSE a[k]]
    \o SelectSeq(b, LAMBDA e : e.name \notin NamesOf(a))

\* \s of a regular expression, and the characters a dot does not match
IsSpace(c) == c \in {" ", "\t", "\n", "\r"}
IsQuote(c) == c \in {"'", "\""}

IsAt(s, k, word) == k >= 1 /\ k + Len(word) - 1 <= Len(s) /\ SubSeq(s, k, k + Len(word) - 1) = word

\* ['"]([^'"]+)['"] matched at position q: the position of the closing quote, or 0
ClosingQuote(s, q) ==
    IF q >= 1 /\ q <= Len(s) /\ IsQuote(s[q])
          /\ \E h \in (q + 2)..Len(s) : IsQuote(s[h])
          /\ ~IsQuote(s[q + 1])
    THEN CHOOSE h \in (q + 2)..Len(s) :
             IsQuote(s[h]) /\ \A j \in (q + 1)..(h - 1) : ~IsQuote(s[j])
    ELSE 0

\* The first position at or after k that holds no white space
SkipSpace(s, k) ==
    IF \E j \in k..Len(s) : ~IsSpace(s[j])
    THEN CHOOSE j \in k..Len(s) : ~IsSpace(s[j]) /\ \A m \in k..(j - 1) : IsSpace(s[m])
    ELSE Len(s) + 1


\* from\s+['"]([^'"]+)['"] matched with `from` at position F: the opening quote, or 0
FromClause(s, F) ==
    IF IsAt(s, F, <<"f", "r", "o", "m">>)
    THEN LET q == SkipSpace(s, F + 4)
         IN  IF q > F + 4 /\ ClosingQuote(s, q) # 0 THEN q ELSE 0
    ELSE 0

\* The positions of `from` at which /import\s+.*\s+from\s+['"]([^'"]+)['"]/ can
\* match with `import` at position i: white space up to a, no line end up to d,
\* white space up to the `from`
FromPositions(s, i) ==
    IF ~IsAt(s, i, <<"i", "m", "p", "o", "r", "t">>) THEN {}
    ELSE { F \in (i + 7)..Len(s) :
             /\ FromClause(s, F) # 0
             /\ \E a \in (i + 6)..(F - 2) : \E d \in a..(F - 2) :
                   /\ \A k \in (i + 6)..a : IsSpace(s[k])
                   /\ \A k \in (a + 1)..d : s[k] \notin {"\n", "\r"}
                   /\ \A k \in (d + 1)..(F - 1) : IsSpace(s[k]) }

\* content.matchAll(import ...): the captured paths of the matches from position k
\* on.  The greedy .* ends at the last `from` that lets the rest match.
RECURSIVE ImportPaths(_, _)
ImportPaths(s, k) ==
    IF \A i \in k..Len(s) : FromPositions(s, i) = {} THEN {}
    ELSE LET i == CHOOSE j \in k..Len(s) :
                      FromPositions(s, j) # {} /\ \A m \in k..(j - 1) : FromPositions(s, m) = {}
             last == CHOOSE F \in FromPositions(s, i) : \A G \in FromPositions(s, i) : G <= F
             q == FromClause(s, last)
             h == ClosingQuote(s, q)
         IN  {SubSeq(s, q + 1, h - 1)} \cup ImportPaths(s, h + 1)

\* /require\(\s*['"]([^'"]+)['"]\s*\)/ matched at position i: the opening quote, or 0
RequireAt(s, i) ==
    IF IsAt(s, i, <<"r", "e", "q", "u", "i", "r", "e", "(">>)
    THEN LET q == SkipSpace(s, i + 8)
             h == ClosingQuote(s, q)
         IN  IF h # 0 /\ SkipSpace(s, h + 1) <= Len(s) /\ s[SkipSpace(s, h + 1)] = ")"
             THEN q ELSE 0
    ELSE 0

RECURSIVE RequirePaths(_, _)
RequirePaths(s, k) ==
    IF \A i \in k..Len(s) : RequireAt(s, i) = 0 THEN {}
    ELSE LET i == CHOOSE j \in k..Len(s) :
                      RequireAt(s, j) # 0 /\ \A m \in k..(j - 1) : RequireAt(s, m) = 0
             q == RequireAt(s, i)
             h == ClosingQuote(s, q)
         IN  {SubSeq(s, q + 1, h - 1)} \cup RequirePaths(s, SkipSpace(s, h + 1) + 1)

\* path.split('/')
RECURSIVE Split(_, _)
Split(s, sep) ==
    IF \E k \in 1..Len(s) : s[k] = sep
    THEN LET k == CHOOSE j \in 1..Len(s) : s[j] = sep /\ \A m \in 1..(j - 1) : s[m] # sep
         IN  <<SubSeq(s, 1, k - 1)>> \o Split(SubSeq(s, k + 1, Len(s)), sep)
    ELSE <<s>>

\* parts.join('/')
RECURSIVE Join(_, _)
Join(parts, sep) ==
    IF Len(parts) = 0 THEN <<>>
    ELSE IF Len(parts) = 1 THEN parts[1]
    ELSE parts[1] \o <<sep>> \o Join(Tail(parts), sep)

\* The package an import path belongs to
PackageOf(importPath) ==
    LET parts == Split(importPath, "/")
    IN  IF importPath[1] = "@"
        THEN Join(SubSeq(parts, 1, Min(2, Len(parts))), "/")
        ELSE parts[1]

\* findUsedDependencies(): the packages of every matched path of every file
findUsedDependencies(t) ==
    UNION { { PackageOf(p) : p \in ImportPaths(SourceCatalogue[f].content, 1)
                                   \cup RequirePaths(SourceCatalogue[f].content, 1) } :
            f \in t }

\* What `npm outdated --json` can print: nothing, or packages with newer versions
OutdatedReports == { <<>>, <<[package |-> PkgA, current |-> "1.0.0", latest |-> "4.0.0"]>> }

DepFinding(package, reason, currentVersion) ==
    [package |-> package, reason |-> reason, currentVersion |-> currentVersion]

RECURSIVE UnusedFrom(_, _, _)
UnusedFrom(entries, usedDeps, k) ==
    IF k > Len(entries) THEN <<>>
    ELSE (IF entries[k].name \notin usedDeps
          THEN <<DepFinding(entries[k].name, "unused", entries[k].version)>>
          ELSE <<>>)
         \o UnusedFrom(entries, usedDeps, k + 1)

NpmNotCalled == [state |-> "none", findings |-> <<>>]
NpmThrew == [state |-> "threw", findings |-> <<>>]
NpmReturned(findings) == [state |-> "returned", findings |-> findings]

\* analyzeNpm() over package.json pj and the source files t, npm printing report
analyzeNpm(pj, t, report) ==
    IF ~pj.exists THEN NpmReturned(<<>>)
    ELSE IF ~pj.valid THEN NpmThrew
    ELSE LET dependencies == Spread(pj.dependencies.value, pj.devDependencies.value)
             usedDeps == findUsedDependencies(t)
         IN  NpmReturned(
                 UnusedFrom(dependencies, usedDeps, 1)
                 \o [k \in 1..Len(report) |->
                        DepFinding(report[k].package, "outdated", report[k].current)])

InitNpm ==
    /\ packageJson = NoPackageJson
    /\ sources = {}
    /\ writes = 0
    /\ npmOut = NpmNotCalled

\* The repository the analyzer is pointed at is written
WritePackageJson ==
    /\ npmOut.state = "none"
    /\ writes < MaxWrites
    /\ packageJson' \in PackageJsons \ {packageJson}
    /\ writes' = writes + 1
    /\ UNCHANGED <<sources, npmOut>>

WriteSource ==
    /\ npmOut.state = "none"
    /\ writes < MaxWrites
    /\ \E x \in 1..Len(SourceCatalogue) :
          /\ x \notin sources
          /\ sources' = sources \cup {x}
          /\ sources' \in SourceTrees
    /\ writes' = writes + 1
    /\ UNCHANGED <<packageJson, npmOut>>

\* new DependencyAnalyzer(repoPath).analyzeNpm()
AnalyzeNpm ==
    /\ npmOut.state = "none"
    /\ \E report \in OutdatedReports : npmOut' = analyzeNpm(packageJson, sources, report)
    /\ UNCHANGED <<packageJson, sources, writes>>

-----------------------------------------------------------------------------
(* The orchestrator: CodeHealthOptimizer.analyze() *)

Analyzers == {"deadCode", "duplicates", "dependencies"}

Pending == [state |-> "pending", value |-> <<>>]
Fulfilled(v) == [state |-> "fulfilled", value |-> v]
Rejected == [state |-> "rejected", value |-> <<>>]

\* What DuplicateAnalyzer.analyze() can resolve to (similarity in percent)
DuplicateResults ==
    { <<>>,
      << [file1 |-> <<"a", ".", "t", "s">>, file2 |-> <<"b", ".", "t", "s">>,
          similarity |-> 80, recommendation |-> "Extract a shared helper"] >> }

\* What DependencyAnalyzer.analyzeNpm() can resolve to
DependencyResults ==
    { <<>>,
      << [package |-> "unused-package", reason |-> "unused"] >>,
      << [package |-> "unused-package", reason |-> "unused"],
         [package |-> "old-package", reason |-> "outdated"] >> }

\* An AnalyzedIssue; severity, file_path, line_start and line_end are optional
AnalyzedIssue(type, severity, confidence, file_path, line_start, line_end, description, recommendation) ==
    [type |-> type, severity |-> severity, confidence |-> confidence,
     file_path |-> file_path, line_start |-> line_start, line_end |-> line_end,
     description |-> description, recommendation |-> recommendation]

\* What analyzeWithClaude() can resolve to: the array parsed from the reply
ClaudeResults ==
    { <<>>,
      << AnalyzedIssue(Present(DeadCodeKey), Present("high"), 95, Absent(<<>>), Absent(0), Absent(0),
                       <<"model", "review">>, "Remove") >>,
      << AnalyzedIssue(Present(DeadCodeKey), Present("high"), 95,
                       Present(<<"m", ".", "t", "s">>), Present(2), Present(2),
                       <<"helper", "unused">>, "Remove"),
         AnalyzedIssue(Present(DependencyKey), Absent(""), 60, Absent(<<>>), Absent(0), Absent(0),
                       <<"unused-package", "unused">>, "Uninstall"),
         AnalyzedIssue(Present(DuplicateKey), Present("medium"), 70,
                       Present(<<"a", ".", "t", "s">>), Absent(0), Absent(0),
                       <<"a.ts", "b.ts">>, "Extract"),
         AnalyzedIssue(Present(ComplexityKey), Present("high"), 50, Absent(<<>>), Absent(0), Absent(0),
                       <<"long", "function">>, "Split") >> }

\* The values an analyzer's promise can be fulfilled with
ResultsOf(k) ==
    CASE k = "deadCode" -> { FindingsOf(EmptyGraph, tree) }
      [] k = "duplicates" -> DuplicateResults
      [] k = "dependencies" -> DependencyResults

\* Promise.all: rejected by the first rejection, fulfilled once every promise is
allAfter(all, t) ==
    IF all # "pending" THEN all
    ELSE IF \E k \in Analyzers : t[k].state = "rejected" THEN "rejected"
    ELSE IF \A k \in Analyzers : t[k].state = "fulfilled" THEN "fulfilled"
    ELSE "pending"

\* The basic format raw findings are converted to without Claude
basicFindings(deadCode, duplicates, dependencies) ==
    [k \in 1..Len(deadCode) |->
        AnalyzedIssue(Present(DeadCodeKey), Present("medium"),
                      deadCode[k].confidence * 10,
                      Present(deadCode[k].filePath),
                      Present(deadCode[k].lineStart), Present(deadCode[k].lineEnd),
                      <<"Unused function: ", deadCode[k].functionName>>,
                      deadCode[k].reason)]
    \o
    [k \in 1..Len(duplicates) |->
        AnalyzedIssue(Present(DuplicateKey), Present("high"),
                      duplicates[k].similarity,
                      Present(duplicates[k].file1), Absent(0), Absent(0),
                      <<"Duplicate code between ", duplicates[k].file1, duplicates[k].file2>>,
                      duplicates[k].recommendation)]
    \o
    [k \in 1..Len(dependencies) |->
        AnalyzedIssue(Present(DependencyKey), Present("low"),
                      IF dependencies[k].reason = "unused" THEN 90 ELSE 70,
                      Absent(<<>>), Absent(0), Absent(0),
                      <<dependencies[k].package, dependencies[k].reason>>,
                      IF dependencies[k].reason = "unused"
                      THEN "Remove unused dependency" ELSE "Update dependency")]

\* An AnalyzedIssue read through the Finding interface of HealthMetrics: it has a
\* type, and no lineStart or lineEnd property (its lines are line_start, line_end)
AsMetricFinding(f) == MetricFinding(f.type, Absent(0), Absent(0))

AsMetricFindings(findings) == [k \in 1..Len(findings) |-> AsMetricFinding(findings[k])]

AnalysisResult(findings, t) ==
    [findings |-> findings,
     deadCode |-> t["deadCode"].value,
     duplicates |-> t["duplicates"].value,
     dependencies |-> t["dependencies"].value,
     healthScore |-> calculateHealthScore(AsMetricFindings(findings)).value,
     totalIssues |-> Len(findings),
     estimatedSavings |-> estimateTimeSavings(AsMetricFindings(findings)).quarters]

NoResult == [findings |-> <<>>, deadCode |-> <<>>, duplicates |-> <<>>,
             dependencies |-> <<>>, healthScore |-> 0, totalIssues |-> 0,
             estimatedSavings |-> 0]

-----------------------------------------------------------------------------
(* Publishing: GitLabService (gitlab.ts) *)

\* The element of issuesForGitlab made from finding f
FindingForIssue(f) ==
    [filePath |-> IF f.file_path.present THEN f.file_path.value ELSE <<>>,
     lineStart |-> IF f.line_start.present THEN f.line_start.value ELSE 0,
     lineEnd |-> IF f.line_end.present THEN f.line_end.value ELSE 0,
     confidence |-> f.confidence,
     description |-> f.description,
     recommendation |-> f.recommendation,
     severity |-> f.severity,
     type |-> f.type]

issuesForGitlab(findings) == [k \in 1..Len(findings) |-> FindingForIssue(findings[k])]

\* A group key that would be taken from the lowest level for a missing severity
SeverityKeyLow(finding) == IF finding.severity.present THEN finding.severity.value ELSE "low"

\* finding.severity ?? 'medium'
SeverityKey(finding) == IF finding.severity.present THEN finding.severity.value ELSE "medium"

\* The property names an object literal inherits, for which acc[severity] is truthy
InheritedNames == {"constructor", "__proto__", "toString", "valueOf", "hasOwnProperty"}

\* groupBySeverity's reduce from finding k on: the groups in the order their keys
\* were inserted, which is the order Object.entries lists them in
RECURSIVE GroupBySeverityFrom(_, _, _)
GroupBySeverityFrom(findings, k, acc) ==
    IF k > Len(findings) THEN [threw |-> FALSE, groups |-> acc]
    ELSE LET severity == SeverityKey(findings[k])
         IN  IF \E j \in 1..Len(acc) : acc[j].severity = severity
             THEN GroupBySeverityFrom(findings, k + 1,
                      [j \in 1..Len(acc) |->
                          IF acc[j].severity = severity
                          THEN [acc[j] EXCEPT !.issues = Append(@, findings[k])]
                          ELSE acc[j]])
             ELSE IF severity \in InheritedNames
                  THEN [threw |-> TRUE, groups |-> acc]
                  ELSE GroupBySeverityFrom(findings, k + 1,
                           Append(acc, [severity |-> severity, issues |-> <<findings[k]>>]))

groupBySeverity(findings) == GroupBySeverityFrom(findings, 1, <<>>)

\* formatIssueDescription(findings): the count and one numbered section per finding
formatIssueDescription(findings) ==
    [count |-> Len(findings),
     sections |-> [k \in 1..Len(findings) |->
                      [number |-> k,
                       title |-> "Code Health Issue",
                       file |-> findings[k].filePath,
                       lineStart |-> findings[k].lineStart,
                       lineEnd |-> findings[k].lineEnd,
                       confidence |-> findings[k].confidence,
                       description |-> findings[k].description,
                       recommendation |-> findings[k].recommendation,
                       language |-> "text",
                       codeSnippet |-> ""]]]

\* The issue Issues.create is asked for, for one group
IssueFor(group) ==
    [title |-> <<"Code Health: ", group.severity, " Priority Issues (", Len(group.issues), " found)">>,
     description |-> formatIssueDescription(group.issues),
     labels |-> <<"code-health", "technical-debt", <<"severity::", group.severity>>>>]

-----------------------------------------------------------------------------
(* The orchestrator's steps *)

InitOrchState ==
    /\ orchPc = "idle"
    /\ task = [k \in Analyzers |-> [state |-> "idle", value |-> <<>>]]
    /\ allState = "none"
    /\ orchFindings = <<>>
    /\ toCreate = <<>>
    /\ issues = <<>>
    /\ result = NoResult

\* analyze() up to the await of Promise.all: the three analyzers are started
OrchCall ==
    /\ orchPc = "idle"
    /\ task' = [k \in Analyzers |->
                   IF k = "duplicates" /\ ~optKey THEN Fulfilled(<<>>) ELSE Pending]
    /\ allState' = "pending"
    /\ orchPc' = "awaitAll"
    /\ UNCHANGED <<optKey, optToken, optProject, orchFindings, toCreate, issues, result>>

\* An analyzer's promise is fulfilled
TaskFulfil(k) ==
    /\ task[k].state = "pending"
    /\ \E v \in ResultsOf(k) : task' = [task EXCEPT ![k] = Fulfilled(v)]
    /\ allState' = allAfter(allState, task')
    /\ UNCHANGED <<optKey, optToken, optProject, orchPc, orchFindings, toCreate, issues, result>>

\* An analyzer's promise is rejected (its analyze() threw)
TaskReject(k) ==
    /\ task[k].state = "pending"
    /\ task' = [task EXCEPT ![k] = Rejected]
    /\ allState' = allAfter(allState, task')
    /\ UNCHANGED <<optKey, optToken, optProject, orchPc, orchFindings, toCreate, issues, result>>

\* analyze() from the findings on: the metrics, then either the first
\* Issues.create of createHealthIssues is awaited, or analyze() returns
Proceed(findings) ==
    IF calculateHealthScore(AsMetricFindings(findings)).state = "threw"
    THEN orchPc' = "threw" /\ UNCHANGED <<orchFindings, toCreate, result>>
    ELSE IF optToken /\ optProject /\ Len(findings) > 0
         THEN LET grouped == groupBySeverity(issuesForGitlab(findings))
              IN  IF grouped.threw
                  THEN orchPc' = "threw" /\ UNCHANGED <<orchFindings, toCreate, result>>
                  ELSE /\ orchPc' = "awaitGitlab"
                       /\ orchFindings' = findings
                       /\ toCreate' = grouped.groups
                       /\ UNCHANGED result
         ELSE /\ orchPc' = "done"
              /\ orchFindings' = findings
              /\ result' = AnalysisResult(findings, task)
              /\ UNCHANGED toCreate

\* analyze() resumes after the await of Promise.all
OrchResume ==
    /\ orchPc = "awaitAll"
    /\ allState # "pending"
    /\ IF allState = "rejected"
       THEN orchPc' = "threw" /\ UNCHANGED <<orchFindings, toCreate, result>>
       ELSE IF optKey
            THEN orchPc' = "awaitClaude" /\ UNCHANGED <<orchFindings, toCreate, result>>
            ELSE Proceed(basicFindings(task["deadCode"].value, task["duplicates"].value,
                                       task["dependencies"].value))
    /\ UNCHANGED <<optKey, optToken, optProject, task, allState, issues>>

\* analyzeWithClaude() resolves, and analyze() goes on
ClaudeReply ==
    /\ orchPc = "awaitClaude"
    /\ \E f \in ClaudeResults : Proceed(f)
    /\ UNCHANGED <<optKey, optToken, optProject, task, allState, issues>>

\* analyzeWithClaude() rejects, and so does analyze()
ClaudeFail ==
    /\ orchPc = "awaitClaude"
    /\ orchPc' = "threw"
    /\ UNCHANGED <<optKey, optToken, optProject, task, allState, orchFindings, toCreate, issues, result>>

\* The awaited Issues.create resolves: the issue exists, and createHealthIssues goes
\* on to the next group, or returns and analyze() returns
IssueCreated ==
    /\ orchPc = "awaitGitlab"
    /\ issues' = Append(issues, IssueFor(Head(toCreate)))
    /\ toCreate' = Tail(toCreate)
    /\ IF Len(toCreate) = 1
       THEN orchPc' = "done" /\ result' = AnalysisResult(orchFindings, task)
       ELSE UNCHANGED <<orchPc, result>>
    /\ UNCHANGED <<optKey, optToken, optProject, task, allState, orchFindings>>

\* The awaited Issues.create rejects, and so do createHealthIssues and analyze()
IssueCreateFails ==
    /\ orchPc = "awaitGitlab"
    /\ orchPc' = "threw"
    /\ UNCHANGED <<optKey, optToken, optProject, task, allState, orchFindings, toCreate, issues, result>>

-----------------------------------------------------------------------------
(* Specifications *)

\* The dead-code analyzer alone, called directly (as the tests do)
Init == InitDead /\ optKey = FALSE /\ optToken = FALSE /\ optProject = FALSE /\ InitOrchState /\ InitMetrics /\ InitNpm

Next ==
    \/ \E i \in Instances : Analyze(i) /\ UNCHANGED <<orchVars, metricVars, npmVars>>
    \/ ChangeFiles /\ UNCHANGED <<orchVars, metricVars, npmVars>>

Spec == Init /\ [][Next]_vars

\* One call of CodeHealthOptimizer.analyze() over the files on disk
InitOrch ==
    /\ InitDead
    /\ optKey \in BOOLEAN /\ optToken \in BOOLEAN /\ optProject \in BOOLEAN
    /\ InitOrchState /\ InitMetrics /\ InitNpm

NextOrch ==
    \/ OrchCall /\ UNCHANGED <<deadVars, metricVars, npmVars>>
    \/ \E k \in Analyzers : TaskFulfil(k) /\ UNCHANGED <<deadVars, metricVars, npmVars>>
    \/ \E k \in Analyzers : TaskReject(k) /\ UNCHANGED <<deadVars, metricVars, npmVars>>
    \/ OrchResume /\ UNCHANGED <<deadVars, metricVars, npmVars>>
    \/ ClaudeReply /\ UNCHANGED <<deadVars, metricVars, npmVars>>
    \/ ClaudeFail /\ UNCHANGED <<deadVars, metricVars, npmVars>>
    \/ IssueCreated /\ UNCHANGED <<deadVars, metricVars, npmVars>>
    \/ IssueCreateFails /\ UNCHANGED <<deadVars, metricVars, npmVars>>

SpecOrch == InitOrch /\ [][NextOrch]_vars

\* No analyzer instance has run and no orchestrator call is under way
InitIdle ==
    /\ legacyAst = TRUE /\ tree = {} /\ edits = 0 /\ runs = 0
    /\ callGraph = [i \in Instances |-> EmptyGraph]
    /\ program = [i \in Instances |-> NoProgram]
    /\ lastRun = [i \in Instances |-> [ran |-> FALSE, files |-> {}, findings |-> <<>>]]
    /\ optKey = FALSE /\ optToken = FALSE /\ optProject = FALSE /\ InitOrchState
    /\ InitMetrics /\ InitNpm

\* HealthMetrics.calculateHealthScore called on a findings list
NextScore ==
    \/ AddFinding /\ UNCHANGED <<deadVars, orchVars, npmVars>>
    \/ CalculateHealthScore /\ UNCHANGED <<deadVars, orchVars, npmVars>>

SpecScore == InitIdle /\ [][NextScore]_vars

\* DependencyAnalyzer.analyzeNpm() called on a repository
NextDeps ==
    \/ WritePackageJson /\ UNCHANGED <<deadVars, orchVars, metricVars>>
    \/ WriteSource /\ UNCHANGED <<deadVars, orchVars, metricVars>>
    \/ AnalyzeNpm /\ UNCHANGED <<deadVars, orchVars, metricVars>>

SpecDeps == InitIdle /\ [][NextDeps]_vars


-----------------------------------------------------------------------------
(* What the claims speak about *)

\* Instance i has finished an analyze() that built a program
RanOn(i) == lastRun[i].ran /\ lastRun[i].files # {}

\* The source files of instance i's latest run
FilesOf(i) == program[i]

\* The named, resolvable function and method declarations of the analyzed files
DeclPos(files) ==
    UNION { { <<f, n>> : n \in { m \in 1..Len(files[f].nodes) :
                                   /\ IsDeclNode(files[f].nodes[m])
                                   /\ DeclSymbol(files[f].nodes[m]) # NoSymbol } } :
            f \in { g \in 1..Len(files) : ~files[g].isDeclarationFile } }

\* The call expressions of the analyzed files
CallPos(files) ==
    UNION { { <<f, n>> : n \in { m \in 1..Len(files[f].nodes) :
                                   files[f].nodes[m].kind = "CallExpression" } } :
            f \in { g \in 1..Len(files) : ~files[g].isDeclarationFile } }

\* The findings hold one for the declaration nd of the file
Reported(found, file, nd) ==
    \E k \in 1..Len(found) :
        /\ found[k].filePath = SubSeq(file.fileName, Len(repoPath) + 2, Len(file.fileName))
        /\ found[k].functionName = nd.name
        /\ found[k].lineStart = nd.line0 + 1
        /\ found[k].lineEnd = nd.endLine0 + 1

ReportedAt(i, p) == Reported(lastRun[i].findings, FilesOf(i)[p[1]], FilesOf(i)[p[1]].nodes[p[2]])

NodeAt(i, p) == FilesOf(i)[p[1]].nodes[p[2]]

QualifiedName(nd) == nd.symbol.chain \o <<nd.symbol.name>>

\* The graph instance i classified against holds no caller for the declaration
NoCallers(i, p) ==
    \/ QualifiedName(NodeAt(i, p)) \notin DOMAIN callGraph[i]
    \/ callGraph[i][QualifiedName(NodeAt(i, p))] = {}

CarriesExport(nd) == "ExportKeyword" \in nd.modifiers
InMarkedFile(file) ==
    \/ Includes(file.fileName, <<".", "t", "e", "s", "t", ".">>)
    \/ Includes(file.fileName, <<".", "s", "p", "e", "c", ".">>)
Annotated(nd) == Len(nd.annotations) > 0

IsRootAt(i, p) ==
    \/ CarriesExport(NodeAt(i, p))
    \/ InMarkedFile(FilesOf(i)[p[1]])
    \/ Annotated(NodeAt(i, p))

\* No named function or method declaration encloses node n
RECURSIVE AtModuleScope(_, _)
AtModuleScope(nodes, n) ==
    LET p == nodes[n].parent
    IN  IF p = 0 THEN TRUE
        ELSE IF IsDeclNode(nodes[p]) /\ nodes[p].name # NoName THEN FALSE
        ELSE AtModuleScope(nodes, p)

\* A container (class) around node n carries an export marker
RECURSIVE InExportedContainer(_, _)
InExportedContainer(nodes, n) ==
    LET p == nodes[n].parent
    IN  IF p = 0 THEN FALSE
        ELSE \/ nodes[p].kind = "ClassDeclaration" /\ CarriesExport(nodes[p])
             \/ InExportedContainer(nodes, p)

\* The declaration or one of its ancestor containers carries an export marker
ExportedThroughAncestors(nodes, n) == CarriesExport(nodes[n]) \/ InExportedContainer(nodes, n)

\* Some call of the analyzed files names the declaration at p
CalledIn(i, p) ==
    \E c \in CallPos(FilesOf(i)) : NodeAt(i, c).callee = NodeAt(i, p).symbol

CalledAtModuleScope(i, p) ==
    \E c \in CallPos(FilesOf(i)) :
        /\ NodeAt(i, c).callee = NodeAt(i, p).symbol
        /\ AtModuleScope(FilesOf(i)[c[1]].nodes, c[2])

-----------------------------------------------------------------------------
(* Claims *)

\* C1: every resolvable function or method declaration of the analyzed files is in
\* the findings if and only if it is not a root (not exported, not in a test file,
\* not annotated) and the call graph holds no caller under its qualified name.
C1_ClassificationLaw ==
    \A i \in Instances : RanOn(i) =>
        \A p \in DeclPos(FilesOf(i)) :
            ReportedAt(i, p) <=> (~IsRootAt(i, p) /\ NoCallers(i, p))

\* C2: a non-exported, non-test function that a call at module scope resolves to is
\* not in the findings.
C2_ModuleScopeCallIsReference ==
    \A i \in Instances : RanOn(i) =>
        \A p \in DeclPos(FilesOf(i)) :
            ( /\ ~CarriesExport(NodeAt(i, p))
              /\ ~InMarkedFile(FilesOf(i)[p[1]])
              /\ CalledAtModuleScope(i, p) )
            => ~ReportedAt(i, p)

\* C3: a declaration that carries an export marker is never in the findings.
C3_ExportedNeverReported ==
    \A i \in Instances : RanOn(i) =>
        \A p \in DeclPos(FilesOf(i)) :
            CarriesExport(NodeAt(i, p)) => ~ReportedAt(i, p)

\* C3 witness: an analyze() has classified an exported declaration with no callers
\* that no other exemption covers.
C3_Witness ==
    \E i \in Instances : RanOn(i) /\
        \E p \in DeclPos(FilesOf(i)) :
            /\ CarriesExport(NodeAt(i, p))
            /\ NoCallers(i, p)
            /\ ~InMarkedFile(FilesOf(i)[p[1]])
            /\ ~Annotated(NodeAt(i, p))

\* C4: the classifier's isExported flag is true exactly when the declaration or one
\* of its ancestors carries an export marker, and a method without callers inside an
\* exported class is not in the findings.
C4_ExportThroughAncestors ==
    \A i \in Instances : RanOn(i) =>
        \A p \in DeclPos(FilesOf(i)) :
            /\ isExported(NodeAt(i, p))
                 <=> ExportedThroughAncestors(FilesOf(i)[p[1]].nodes, p[2])
            /\ ( /\ NodeAt(i, p).kind = "MethodDeclaration"
                 /\ ExportedThroughAncestors(FilesOf(i)[p[1]].nodes, p[2])
                 /\ NoCallers(i, p) )
               => ~ReportedAt(i, p)

\* C5: when one of the three analyzers fails, analyze() still completes, with the
\* results of the analyzers that did not fail.
C5_FailureDoesNotAbortOthers ==
    ( /\ orchPc \in {"awaitClaude", "awaitGitlab", "done", "threw"}
      /\ \E k \in Analyzers : task[k].state = "rejected" )
    => /\ orchPc # "threw"
       /\ orchPc = "done" =>
             \A k \in Analyzers : task[k].state = "fulfilled" => result[k] = task[k].value

\* C6: the graph an analyze() classifies against holds only edges found in the files
\* of that run, also on an instance that has run before.
C6_GraphOnlyCurrentEdges ==
    \A i \in Instances : RanOn(i) =>
        \A callee \in DOMAIN callGraph[i] :
            callGraph[i][callee] \subseteq
                Get(buildCallGraph(EmptyGraph, FilesOf(i)), callee)

\* C7: two runs of analyze() over the same file set return the same findings, be
\* they two runs of one instance or runs of two instances.
C7_SameFilesSameFindings ==
    [][ /\ \A i \in Instances :
             (lastRun[i].ran /\ lastRun'[i].files = lastRun[i].files)
             => lastRun'[i].findings = lastRun[i].findings
        /\ \A i, j \in Instances :
             (lastRun'[i].ran /\ lastRun'[j].ran /\ lastRun'[i].files = lastRun'[j].files)
             => lastRun'[i].findings = lastRun'[j].findings ]_vars

\* C8: a declaration of a file whose path contains .test. or .spec. is never in the
\* findings.
C8_TestFileNeverReported ==
    \A i \in Instances : RanOn(i) =>
        \A p \in DeclPos(FilesOf(i)) :
            InMarkedFile(FilesOf(i)[p[1]]) => ~ReportedAt(i, p)

\* C8 witness: an analyze() has classified a declaration of a .spec. file that has no
\* callers and no other exemption.
C8_Witness ==
    \E i \in Instances : RanOn(i) /\
        \E p \in DeclPos(FilesOf(i)) :
            /\ Includes(FilesOf(i)[p[1]].fileName, <<".", "s", "p", "e", "c", ".">>)
            /\ NoCallers(i, p)
            /\ ~CarriesExport(NodeAt(i, p))
            /\ ~Annotated(NodeAt(i, p))

\* C9: a declaration that carries one or more decorators is never in the findings.
C9_AnnotatedNeverReported ==
    \A i \in Instances : RanOn(i) =>
        \A p \in DeclPos(FilesOf(i)) :
            Annotated(NodeAt(i, p)) => ~ReportedAt(i, p)

\* C10: with used and dead in one file and a call of used() in a second file, dead is
\* in the findings and used is not; with an exported main that calls helper, neither
\* is; a non-exported function that some file calls is not in the findings, and an
\* uncalled one that is not a root is.
C10_CalledNotReportedUncalledReported ==
    \A i \in Instances : RanOn(i) =>
        \A p \in DeclPos(FilesOf(i)) :
            /\ (~CarriesExport(NodeAt(i, p)) /\ CalledIn(i, p)) => ~ReportedAt(i, p)
            /\ (~IsRootAt(i, p) /\ ~CalledIn(i, p)) => ReportedAt(i, p)
            /\ NodeAt(i, p).name \in {"main", "helper"} => ~ReportedAt(i, p)
            /\ (NodeAt(i, p).name = "dead") => ReportedAt(i, p)

\* A call inside a named function or method of the analyzed files names the
\* declaration at p
CalledFromFunctionAt(i, p, c) ==
    /\ NodeAt(i, c).callee = NodeAt(i, p).symbol
    /\ ~AtModuleScope(FilesOf(i)[c[1]].nodes, c[2])

\* C11: within one analyze() the call graph is complete over all files before the
\* first declaration is classified: a declaration that a function of any file calls,
\* a file visited later included, is not in the findings (no declaration in the
\* findings has such a call).
C11_GraphCompleteBeforeClassification ==
    \A i \in Instances : RanOn(i) =>
        LET calls == CallPos(FilesOf(i))
        IN  \A p \in DeclPos(FilesOf(i)) :
                ReportedAt(i, p) => ~(\E c \in calls : CalledFromFunctionAt(i, p, c))

\* C11 witness: an analyze() has classified a declaration that is no root and whose
\* calls all lie in files visited after its own.
C11_Witness ==
    \E i \in Instances : RanOn(i) /\
        \E p \in DeclPos(FilesOf(i)) :
            /\ ~IsRootAt(i, p)
            /\ \E c \in CallPos(FilesOf(i)) : CalledFromFunctionAt(i, p, c)
            /\ \A c \in CallPos(FilesOf(i)) :
                   CalledFromFunctionAt(i, p, c) => c[1] > p[1]

\* C12: for any list of findings, calculateHealthScore returns an integer between 0
\* and 100 inclusive.
C12_HealthScoreInRange ==
    mScore.state # "none" =>
        /\ mScore.state = "returned"
        /\ mScore.value \in 0..100

\* The packages package.json lists under dependencies or devDependencies
Listed ==
    IF packageJson.exists /\ packageJson.valid
    THEN NamesOf(packageJson.dependencies.value) \cup NamesOf(packageJson.devDependencies.value)
    ELSE {}

\* Some scanned source file imports or requires the package
LoadedBySource(pkg) == \E f \in sources : pkg \in SourceCatalogue[f].loads

ReportedUnused(pkg) ==
    \E k \in 1..Len(npmOut.findings) :
        npmOut.findings[k].package = pkg /\ npmOut.findings[k].reason = "unused"

\* C13: analyzeNpm() reports a package as unused if and only if package.json lists
\* it under dependencies or devDependencies and no scanned source file imports or
\* requires it.
C13_UnusedIffListedAndNotLoaded ==
    npmOut.state = "returned" =>
        \A pkg \in Packages :
            ReportedUnused(pkg) <=> (pkg \in Listed /\ ~LoadedBySource(pkg))

\* C14: an analyze() that finds zero files returns an empty finding sequence, and
\* builds neither a program nor a call graph: the instance's program and graph are
\* what they were before the call.
C14_ZeroFilesEmptyFindings ==
    [][ (runs' = runs + 1 /\ tree = {}) =>
            /\ \A i \in Instances :
                   (lastRun'[i].ran /\ lastRun'[i].files = {}) => lastRun'[i].findings = <<>>
            /\ program' = program
            /\ callGraph' = callGraph ]_vars

\* C14 witness: an instance has finished an analyze() that found zero files
C14_Witness ==
    \E i \in Instances :
        /\ lastRun[i].ran
        /\ lastRun[i].files = {}
        /\ lastRun[i].findings = <<>>
        /\ program[i] = NoProgram

\* The qualified name of the named function or method around the call at c, for a
\* call that has one
CallerNameAt(i, c) == getFullSymbolName(getContainingFunction(FilesOf(i)[c[1]].nodes, c[2]))

\* The calls of the analyzed files that buildCallGraph inserts an edge for
EdgeCalls(i) ==
    { c \in CallPos(FilesOf(i)) :
        /\ ~AtModuleScope(FilesOf(i)[c[1]].nodes, c[2])
        /\ ResolveCallee(FilesOf(i), NodeAt(i, c).callee) # NoSymbol }

CalleeNameAt(i, c) == getFullSymbolName(NodeAt(i, c).callee)

\* C15: the call graph maps a callee name to the set of its callers: every edge
\* buildCallGraph inserted in the run is still there after the later insertions for
\* the same callee, and the callers a fresh graph holds for a callee are exactly the
\* distinct callers of the run, however many calls each of them makes.
C15_CallerSetsKeepEveryEdge ==
    \A i \in Instances : RanOn(i) =>
        \A c \in EdgeCalls(i) :
            /\ Has(callGraph[i], CalleeNameAt(i, c))
            /\ CallerNameAt(i, c) \in callGraph[i][CalleeNameAt(i, c)]
            /\ runs = 1 =>
                  callGraph[i][CalleeNameAt(i, c)]
                      = { CallerNameAt(i, e) : e \in { x \in EdgeCalls(i) :
                                                          CalleeNameAt(i, x) = CalleeNameAt(i, c) } }

\* C15 witness: a run has inserted two edges from one caller to one callee, and
\* edges from two callers to one callee.
C15_Witness ==
    \E i \in Instances : RanOn(i) /\
        /\ \E c, e \in EdgeCalls(i) :
               /\ c # e
               /\ CalleeNameAt(i, c) = CalleeNameAt(i, e)
               /\ CallerNameAt(i, c) = CallerNameAt(i, e)
        /\ \E c, e \in EdgeCalls(i) :
               /\ CalleeNameAt(i, c) = CalleeNameAt(i, e)
               /\ CallerNameAt(i, c) # CallerNameAt(i, e)

\* The severity a finding counts under
CountedSeverity(f) == IF f.severity.present THEN f.severity.value ELSE "medium"

\* The severity an issue was created for
IssueSeverity(issue) == issue.title[2]

\* Finding f is written up in the issue
WrittenUpIn(f, issue) ==
    \E k \in 1..Len(issue.description.sections) :
        LET section == issue.description.sections[k]
        IN  /\ section.description = f.description
            /\ section.recommendation = f.recommendation
            /\ section.confidence = f.confidence

CallersAt(i, p) ==
    { CallerNameAt(i, c) : c \in { x \in CallPos(FilesOf(i)) : CalledFromFunctionAt(i, p, x) } }

\* Every caller among callers is a declaration that is in the findings
OnlyDeadCallers(i, callers) ==
    \A name \in callers :
        \E q \in DeclPos(FilesOf(i)) : QualifiedName(NodeAt(i, q)) = name /\ ReportedAt(i, q)

\* C17: classification reads only the direct incoming edges: a declaration that is
\* no root and whose only caller is itself, or whose callers are all in the
\* findings themselves, is not in the findings.
C17_OnlyDirectEdgesCount ==
    \A i \in Instances : RanOn(i) =>
        \A p \in DeclPos(FilesOf(i)) :
            LET callers == CallersAt(i, p)
            IN  ( /\ ReportedAt(i, p)
                  /\ ~IsRootAt(i, p)
                  /\ callers # {} )
                => ~( \/ callers = {QualifiedName(NodeAt(i, p))}
                      \/ OnlyDeadCallers(i, callers) )

\* C17 witness: one analyze() has classified a declaration that only calls itself,
\* and one a declaration whose single caller is in the findings.
C17_Witness ==
    /\ \E i \in Instances : RanOn(i) /\
          \E p \in DeclPos(FilesOf(i)) :
              ~IsRootAt(i, p) /\ CallersAt(i, p) = {QualifiedName(NodeAt(i, p))}
    /\ \E i \in Instances : RanOn(i) /\
          \E p \in DeclPos(FilesOf(i)) :
              /\ ~IsRootAt(i, p)
              /\ CallersAt(i, p) # {}
              /\ QualifiedName(NodeAt(i, p)) \notin CallersAt(i, p)
              /\ OnlyDeadCallers(i, CallersAt(i, p))

====
